---- MODULE Spec2Model ----
(***************************************************************************)
(* Replay orchestrator of pkg/service/replay/replay.go: Start iterates the *)
(* stored test sets and calls RunTestSet for each selected one; RunTestSet *)
(* runs concurrently with the app supervisor task and the exit-condition   *)
(* watcher task it spawns, and with the cancellation of the caller's scope.*)
(***************************************************************************)
EXTENDS Integers, Sequences, FiniteSets, TLC

\* ----------------------------------------------------------------------
\* Bounds of the model
\* ----------------------------------------------------------------------
MaxSets == 2
MaxCases == 2
\* stored test runs, executions of Normalize
MaxRuns == 2
MaxNormalize == 2

\* ----------------------------------------------------------------------
\* Program constants
\* ----------------------------------------------------------------------
\* an appErrChan without buffer: make(chan models.AppError)
AppErrChanUnbuffered == 1 - 1

\* an exitLoopChan without buffer: make(chan bool)
ExitLoopChanUnbuffered == 1 - 1

\* exitLoopChan := make(chan bool, 2)
ExitLoopChanCap == 2
\* var appErrChan = make(chan models.AppError, 1)
AppErrChanCap == 1
BaseTime == 0

PASSED == "PASSED"
FAILED == "FAILED"
RUNNING == "RUNNING"
APP_HALTED == "APP_HALTED"
INTERNAL_ERR == "INTERNAL_ERR"
FAULT_USER_APP == "FAULT_USER_APP"
FAULT_SCRIPT == "FAULT_SCRIPT"
USER_ABORT == "USER_ABORT"

ErrCommandError == "ErrCommandError"
ErrUnExpected == "ErrUnExpected"
ErrAppStopped == "ErrAppStopped"
ErrCtxCanceled == "ErrCtxCanceled"
ErrInternal == "ErrInternal"
ErrOther == "ErrOther"

AppErrorTypes ==
  {ErrCommandError, ErrUnExpected, ErrAppStopped, ErrCtxCanceled, ErrInternal, ErrOther}

\* error values seen by the callers: nil, context.Canceled, any other error
NilErr == "nil"
CanceledErr == "context.Canceled"
OtherErr == "error"

\* ----------------------------------------------------------------------
\* Stored data: test sets 1..n, in each set the test cases 1..m (names are
\* unique in a set); one more name can be selected without being stored.
\* ----------------------------------------------------------------------
SetIDs == 1..MaxSets
CaseNames == 1..MaxCases
SelectableNames == 1..(MaxCases + 1)

\* HTTPReq.Timestamp and HTTPResp.Timestamp of the stored test case c
ReqTimestamp(c) == 2 * c - 1
RespTimestamp(c) == 2 * c
\* time.Now() at the initial mock setup: later than every recorded timestamp
Now == 2 * MaxCases + 1

NoReport == [Status |-> "none", Total |-> 0, Success |-> 0, Failure |-> 0, Tests |-> 0]

VARIABLES
  \* configuration (r.config), fixed by construction
  BasePath,            \* TRUE iff config.Test.BasePath != ""
  RemoveUnusedMocks,   \* config.Test.RemoveUnusedMocks
  DockerKind,          \* utils.IsDockerKind(cmdType)
  SelectedTests,       \* config.Test.SelectedTests: test set -> selected case names
  \* environment
  parentCanceled,      \* the scope handed to Start has been canceled
  reportDB,            \* report stored for (testRunID, testSetID) of the running set
  resultDB,            \* test case results stored for that pair, in order
  sealed,              \* test sets whose terminal report has been stored
  \* Start
  spc,                 \* position of Start
  testSetIDs,          \* testSetIDs returned by GetAllTestSetIDs
  setIdx,              \* index of the range loop over testSetIDs
  testRunResult,
  abortTestRun,
  hookCancel,          \* hookCancel != nil
  startErr,            \* error returned by Start
  ranSets,             \* test sets RunTestSet was invoked for, in order
  hookedSets,          \* test sets AfterTestHook was invoked for
  setStatus,           \* test set -> status returned by RunTestSet ("none" before)
  setErr,              \* test set -> error returned by RunTestSet
  startCalls,          \* calls made by Start and Instrument, in order
  \* RunTestSet (one invocation at a time)
  rpc,                 \* position of the runner
  testSetID,
  testCases,           \* result of GetTestCases
  caseIdx,             \* index of the range loop over testCases
  success,
  failure,
  testSetStatus,
  testSetStatusByErrChan,
  loopErr,             \* the loopErr declared before the loop
  testCasesCount,
  testCaseResults,     \* number of results returned by GetTestCaseResults
  retStatus,           \* status being returned
  retErr,              \* error being returned
  runCtxCanceled,      \* runTestSetCtxCancel has been called
  exitLoopChan,        \* buffered values of exitLoopChan
  appErrChan,          \* buffered values of appErrChan
  supPc,               \* position of the app supervisor task
  watPc,               \* position of the exit-condition watcher task
  \* observation of the calls made by the current RunTestSet invocation
  calls,               \* per-case collaborator calls, in order
  nInsertReport,       \* number of InsertReport calls issued
  nUpdateMocks,        \* number of mockDB.UpdateMocks calls issued
  mockNames,           \* mockNames of the last mockDB.UpdateMocks call
  used,                \* other calls the invocation has made: GetTestCases (with
                       \* its outcome) and methods of the instrumentation and of
                       \* the mock store
  \* Normalize
  NormalizeTestRun,        \* config.Normalize.TestRun (0: "")
  NormalizeSelectedTests,  \* config.Normalize.SelectedTests
  testRunIDs,              \* the test runs the report store holds, in order
  reportStatus,            \* test case -> its Status in the stored reports ("absent":
                           \* the report has no result for it)
  HTTPResp,                \* <<test set, test case>> -> stored HTTPResp (0: as recorded)
  npc,                     \* position of Normalize
  testRun,                 \* the local testRun of Normalize (0: "")
  normIdx,                 \* index of the range loop over SelectedTests
  normErrs,                \* errors returned by the executions of Normalize, in order
  getReportRuns,           \* the test runs GetReport was called with
  updateTestCaseCalls,     \* <<test set, test case>> of the UpdateTestCase calls of Normalize
  \* DenoiseTestCases
  Noise,                   \* test case -> paths of its stored noise mask
  recordedNoise,           \* Noise before the first call
  denoised                 \* the calls that returned nil: <<Ops, TestCaseID, Assertion>>

cfgVars == <<BasePath, RemoveUnusedMocks, DockerKind, SelectedTests>>
envVars == <<parentCanceled, reportDB, resultDB, sealed>>
startVars == <<spc, testSetIDs, setIdx, testRunResult, abortTestRun, hookCancel,
               startErr, ranSets, hookedSets, setStatus, setErr, startCalls>>
runLocals == <<testSetID, testCases, caseIdx, success, failure, testSetStatus,
               testSetStatusByErrChan, loopErr, testCasesCount, testCaseResults>>
runVars == <<rpc, runLocals, retStatus, retErr>>
taskVars == <<runCtxCanceled, exitLoopChan, appErrChan, supPc, watPc>>
obsVars == <<calls, nInsertReport, nUpdateMocks, mockNames, used>>
replayVars == <<cfgVars, envVars, startVars, runVars, taskVars, obsVars>>
normVars == <<NormalizeTestRun, NormalizeSelectedTests, testRunIDs, reportStatus,
              HTTPResp, npc, testRun, normIdx, normErrs, getReportRuns,
              updateTestCaseCalls>>
denoiseVars == <<Noise, recordedNoise, denoised>>
toolVars == <<normVars, denoiseVars>>
vars == <<replayVars, toolVars>>

\* ----------------------------------------------------------------------
\* Helpers
\* ----------------------------------------------------------------------
\* the values of config.Test.SelectedTests the model draws from: no selection, or
\* only the last test set, with the last case a set can store and a case that is
\* not stored
SelectedTestsChoices ==
  {<<>>, [s \in {MaxSets} |-> {MaxCases, MaxCases + 1}]}

\* runTestSetCtx.Done(): the set scope is a child of the scope of Start
RunCtxDone == parentCanceled \/ runCtxCanceled

\* selectedTests := ArrayToMap(r.config.Test.SelectedTests[testSetID])
selectedTests(ts) ==
  IF ts \in DOMAIN SelectedTests THEN SelectedTests[ts] ELSE {}

\* the window [req.Timestamp, resp.Timestamp] of a stored case
CaseWindow(c) == <<ReqTimestamp(c), RespTimestamp(c)>>

\* the state of the locals and tasks of RunTestSet when no invocation is running
NoInvocation ==
  /\ testSetID' = 0
  /\ testCases' = <<>>
  /\ caseIdx' = 0
  /\ success' = 0
  /\ failure' = 0
  /\ testSetStatus' = PASSED
  /\ testSetStatusByErrChan' = RUNNING
  /\ loopErr' = NilErr
  /\ testCasesCount' = 0
  /\ testCaseResults' = 0
  /\ retStatus' = "none"
  /\ retErr' = "none"
  /\ runCtxCanceled' = FALSE
  /\ exitLoopChan' = <<>>
  /\ appErrChan' = <<>>
  /\ supPc' = "none"
  /\ watPc' = "none"
  /\ calls' = <<>>
  /\ nInsertReport' = 0
  /\ nUpdateMocks' = 0
  /\ mockNames' = {}
  /\ used' = {}
  /\ reportDB' = NoReport
  /\ resultDB' = <<>>

\* Normalize has not been called; nothing is configured for it
NormalizeIdle ==
  /\ NormalizeTestRun = 0
  /\ NormalizeSelectedTests = <<>>
  /\ testRunIDs = <<>>
  /\ reportStatus = [c \in CaseNames |-> "absent"]
  /\ HTTPResp = [sc \in SetIDs \X CaseNames |-> 0]
  /\ npc = "idle"
  /\ testRun = 0
  /\ normIdx = 0
  /\ normErrs = <<>>
  /\ getReportRuns = {}
  /\ updateTestCaseCalls = {}

\* DenoiseTestCases has not been called
DenoiseIdle ==
  /\ Noise = [c \in CaseNames |-> {}]
  /\ recordedNoise = Noise
  /\ denoised = <<>>

\* the replayer after NewReplayer, before Start
ReplayInit ==
  /\ BasePath \in BOOLEAN
  /\ RemoveUnusedMocks \in BOOLEAN
  /\ DockerKind \in BOOLEAN
  /\ SelectedTests \in SelectedTestsChoices
  /\ parentCanceled = FALSE
  /\ reportDB = NoReport
  /\ resultDB = <<>>
  /\ sealed = {}
  /\ spc = "getTestSetIDs"
  /\ testSetIDs = <<>>
  /\ setIdx = 0
  /\ testRunResult = TRUE
  /\ abortTestRun = FALSE
  /\ hookCancel = FALSE
  /\ startErr = "none"
  /\ ranSets = <<>>
  /\ hookedSets = {}
  /\ setStatus = [s \in SetIDs |-> "none"]
  /\ setErr = [s \in SetIDs |-> "none"]
  /\ startCalls = <<>>
  /\ rpc = "idle"
  /\ testSetID = 0
  /\ testCases = <<>>
  /\ caseIdx = 0
  /\ success = 0
  /\ failure = 0
  /\ testSetStatus = PASSED
  /\ testSetStatusByErrChan = RUNNING
  /\ loopErr = NilErr
  /\ testCasesCount = 0
  /\ testCaseResults = 0
  /\ retStatus = "none"
  /\ retErr = "none"
  /\ runCtxCanceled = FALSE
  /\ exitLoopChan = <<>>
  /\ appErrChan = <<>>
  /\ supPc = "none"
  /\ watPc = "none"
  /\ calls = <<>>
  /\ nInsertReport = 0
  /\ nUpdateMocks = 0
  /\ mockNames = {}
  /\ used = {}

Init == ReplayInit /\ NormalizeIdle /\ DenoiseIdle

\* ----------------------------------------------------------------------
\* Environment: the caller cancels the scope it handed to Start
\* ----------------------------------------------------------------------
CancelParent ==
  /\ ~parentCanceled
  /\ spc # "done"
  /\ parentCanceled' = TRUE
  /\ UNCHANGED <<toolVars, cfgVars, reportDB, resultDB, sealed, startVars, runVars, taskVars,
                 obsVars>>

\* ----------------------------------------------------------------------
\* Start
\* ----------------------------------------------------------------------
\* return err from Start: the deferred function runs next
StartReturn(err) ==
  /\ startErr' = err
  /\ spc' = "defer"

\* if err == context.Canceled { return err }; return fmt.Errorf(stopReason)
StartErrOf(err) == IF err = CanceledErr THEN CanceledErr ELSE OtherErr

\* the error a failing collaborator call returns
CallErrors == {CanceledErr, OtherErr}

\* an orchestrator that goes on with an empty list of test sets
NoTestSetsIgnored(ids) == FALSE

\* if len(testSetIDs) == 0
NoTestSets(ids) == Len(ids) = 0

\* testSetIDs, err := r.testDB.GetAllTestSetIDs(ctx); if len(testSetIDs) == 0 {...}
GetAllTestSetIDs ==
  /\ spc = "getTestSetIDs"
  /\ \/ \E err \in CallErrors :
          /\ StartReturn(StartErrOf(err))
          /\ startCalls' = Append(startCalls, "GetAllTestSetIDs:error")
          /\ UNCHANGED testSetIDs
     \/ \E n \in 0..MaxSets :
          LET ids == [i \in 1..n |-> i] IN
          /\ testSetIDs' = ids
          /\ startCalls' = Append(startCalls, "GetAllTestSetIDs")
          /\ IF NoTestSets(ids)
               THEN StartReturn(OtherErr)
               ELSE /\ spc' = "getNextTestRunID"
                    /\ UNCHANGED startErr
  /\ UNCHANGED <<toolVars, cfgVars, envVars, setIdx, testRunResult, abortTestRun, hookCancel,
                 ranSets, hookedSets, setStatus, setErr, runVars, taskVars, obsVars>>

\* testRunID, err := r.GetNextTestRunID(ctx)
GetNextTestRunID ==
  /\ spc = "getNextTestRunID"
  /\ startCalls' = Append(startCalls, "GetAllTestRunIDs")
  /\ \/ \E err \in CallErrors : StartReturn(StartErrOf(err))
     \/ /\ spc' = "instrument"
        /\ UNCHANGED startErr
  /\ UNCHANGED <<toolVars, cfgVars, envVars, testSetIDs, setIdx, testRunResult, abortTestRun,
                 hookCancel, ranSets, hookedSets, setStatus, setErr, runVars,
                 taskVars, obsVars>>

\* an Instrument that sets up the instrumentation whatever the base path
InstrumentsAlways == TRUE

\* Instrument goes past if r.config.Test.BasePath != "" { return &InstrumentState{}, nil }
Instruments == ~BasePath

\* inst, err := r.Instrument(ctx); hookCancel = inst.HookCancel
Instrument ==
  /\ spc = "instrument"
  /\ \/ \* base path provided: &InstrumentState{}, nil
        /\ ~Instruments
        /\ spc' = "loop"
        /\ UNCHANGED <<startErr, hookCancel, startCalls>>
     \/ \* Setup fails
        /\ Instruments
        /\ \E err \in CallErrors : StartReturn(StartErrOf(err))
        /\ startCalls' = Append(startCalls, "Setup")
        /\ UNCHANGED hookCancel
     \/ \* case <-ctx.Done(): return &InstrumentState{}, context.Canceled
        /\ Instruments
        /\ parentCanceled
        /\ StartReturn(CanceledErr)
        /\ startCalls' = Append(startCalls, "Setup")
        /\ UNCHANGED hookCancel
     \/ \* Hook fails: cancel() is called in Instrument and no handle is returned
        /\ Instruments
        /\ \E err \in CallErrors : StartReturn(StartErrOf(err))
        /\ startCalls' = startCalls \o <<"Setup", "Hook", "cancel">>
        /\ UNCHANGED hookCancel
     \/ \* &InstrumentState{AppID: appID, HookCancel: cancel}, nil
        /\ Instruments
        /\ hookCancel' = TRUE
        /\ startCalls' = startCalls \o <<"Setup", "Hook">>
        /\ spc' = "loop"
        /\ UNCHANGED startErr
  /\ UNCHANGED <<toolVars, cfgVars, envVars, testSetIDs, setIdx, testRunResult, abortTestRun,
                 ranSets, hookedSets, setStatus, setErr, runVars, taskVars, obsVars>>

\* _, ok := r.config.Test.SelectedTests[testSetID]; !ok && len(...) != 0
SkipTestSet(ts) == ts \notin DOMAIN SelectedTests /\ DOMAIN SelectedTests # {}

\* a loop that visits the first test set again instead of advancing
NextSetIdxStuck(i) == IF i = 0 THEN 1 ELSE i

\* the index of the test set the range loop visits after index i
NextSetIdx(i) == i + 1

\* for _, testSetID := range testSetIDs { ... r.RunTestSet(ctx, testSetID, ...) }
StartLoop ==
  /\ spc = "loop"
  /\ LET i == NextSetIdx(setIdx) IN
     IF i > Len(testSetIDs)
       THEN /\ spc' = "telemetry"
            /\ UNCHANGED <<setIdx, ranSets, runVars, taskVars, obsVars, reportDB,
                           resultDB>>
       ELSE IF SkipTestSet(testSetIDs[i])
         THEN /\ setIdx' = i
              /\ UNCHANGED <<spc, ranSets, runVars, taskVars, obsVars, reportDB,
                             resultDB>>
         ELSE \* RunTestSet is entered: its locals are fresh
              /\ setIdx' = i
              /\ spc' = "runTestSet"
              /\ ranSets' = Append(ranSets, testSetIDs[i])
              /\ rpc' = "begin"
              /\ testSetID' = testSetIDs[i]
              /\ UNCHANGED <<testCases, caseIdx, success, failure, testSetStatus,
                             testSetStatusByErrChan, loopErr, testCasesCount,
                             testCaseResults, retStatus, retErr, taskVars, obsVars,
                             reportDB, resultDB>>
  /\ UNCHANGED <<toolVars, cfgVars, parentCanceled, sealed, testSetIDs, testRunResult,
                 abortTestRun, hookCancel, startErr, hookedSets, setStatus, setErr,
                 startCalls>>

AbortStatuses == {APP_HALTED, INTERNAL_ERR, FAULT_USER_APP}

\* a switch that also aborts the test run on a failed test set
AbortsRunOnFailed(status) == status \in AbortStatuses \cup {FAILED}

\* the switch on testSetStatus: does the status abort the test run
AbortsRun(status) == status \in AbortStatuses

\* a switch that takes a failed test set for a passed one
TestSetResultLenient(status) == status \in {PASSED, FAILED}

\* testSetResult after the switch on testSetStatus: true for PASSED only
TestSetResult(status) == status = PASSED

\* the code after RunTestSet returned: if err != nil {...}; switch testSetStatus {...}
\* (the locals and the tasks of the returned invocation are gone)
Classify ==
  /\ spc = "runTestSet"
  /\ rpc = "returned"
  /\ rpc' = "idle"
  /\ NoInvocation
  /\ setStatus' = [setStatus EXCEPT ![testSetID] = retStatus]
  /\ setErr' = [setErr EXCEPT ![testSetID] = retErr]
  /\ IF retErr # NilErr
       THEN /\ StartReturn(StartErrOf(retErr))
            /\ UNCHANGED <<testRunResult, abortTestRun>>
       ELSE IF retStatus = USER_ABORT
         THEN /\ StartReturn(NilErr)
              /\ UNCHANGED <<testRunResult, abortTestRun>>
         ELSE /\ testRunResult' = (testRunResult /\ TestSetResult(retStatus))
              /\ abortTestRun' = AbortsRun(retStatus)
              /\ spc' = IF AbortsRun(retStatus) THEN "telemetry" ELSE "afterTestHook"
              /\ UNCHANGED startErr
  /\ UNCHANGED <<toolVars, cfgVars, parentCanceled, sealed, testSetIDs, setIdx, hookCancel,
                 ranSets, hookedSets, startCalls>>

\* _, err = requestMockemulator.AfterTestHook(ctx, testRunID, testSetID, ...)
AfterTestHook ==
  /\ spc = "afterTestHook"
  /\ hookedSets' = hookedSets \cup {testSetIDs[setIdx]}
  /\ spc' = "loop"
  /\ UNCHANGED <<toolVars, cfgVars, envVars, testSetIDs, setIdx, testRunResult, abortTestRun,
                 hookCancel, startErr, ranSets, setStatus, setErr, startCalls, runVars,
                 taskVars, obsVars>>

\* testRunStatus := "fail"; if testRunResult { testRunStatus = "pass" }
TestRunStatus(result) == IF result THEN "TestRun(pass)" ELSE "TestRun(fail)"

\* r.telemetry.TestRun(...); printSummary; return nil
Telemetry ==
  /\ spc = "telemetry"
  /\ startCalls' = Append(startCalls, TestRunStatus(testRunResult))
  /\ StartReturn(NilErr)
  /\ UNCHANGED <<toolVars, cfgVars, envVars, testSetIDs, setIdx, testRunResult, abortTestRun,
                 hookCancel, ranSets, hookedSets, setStatus, setErr, runVars, taskVars,
                 obsVars>>

\* a deferred function that does not release the hooks
DeferCallsNoRelease(handle) == <<"g.Wait">>

\* if hookCancel != nil { hookCancel() }; err := g.Wait()
DeferCalls(handle) == (IF handle THEN <<"hookCancel">> ELSE <<>>) \o <<"g.Wait">>

\* the deferred function of Start: utils.Stop, hookCancel(), g.Wait()
StartDefer ==
  /\ spc = "defer"
  /\ spc' = "done"
  /\ startCalls' = startCalls \o DeferCalls(hookCancel)
  /\ UNCHANGED <<toolVars, cfgVars, envVars, testSetIDs, setIdx, testRunResult, abortTestRun,
                 hookCancel, startErr, ranSets, hookedSets, setStatus, setErr, runVars,
                 taskVars, obsVars>>

\* ----------------------------------------------------------------------
\* RunTestSet
\* ----------------------------------------------------------------------
\* return status, err: the deferred function of RunTestSet starts with
\* runTestSetCtxCancel(), then waits for the tasks
Return(status, err) ==
  /\ retStatus' = status
  /\ retErr' = err
  /\ runCtxCanceled' = TRUE
  /\ rpc' = "wait"

Goto(pc) ==
  /\ rpc' = pc
  /\ UNCHANGED <<retStatus, retErr, runCtxCanceled>>

\* if r.config.Test.BasePath != "" { conf, err = r.testSetConf.Read(...); PreScript }
PreScript ==
  /\ rpc = "begin"
  /\ \/ /\ ~BasePath
        /\ Goto("getTestCases")
     \/ \* Read fails, or conf == nil
        /\ BasePath
        /\ Return(FAILED, OtherErr)
     \/ \* executeScript(conf.PreScript) fails
        /\ BasePath
        /\ Return(FAULT_SCRIPT, OtherErr)
     \/ /\ BasePath
        /\ Goto("getTestCases")
  /\ UNCHANGED <<toolVars, cfgVars, envVars, startVars, runLocals, exitLoopChan, appErrChan,
                 supPc, watPc, obsVars>>

\* a runner that goes on with an empty list of test cases
NoTestCasesIgnored(cases) == FALSE

\* if len(testCases) == 0
NoTestCases(cases) == Len(cases) = 0

\* testCases, err := r.testDB.GetTestCases(runTestSetCtx, testSetID)
GetTestCases ==
  /\ rpc = "getTestCases"
  /\ \/ /\ Return(FAILED, OtherErr)
        /\ used' = used \cup {"GetTestCases:error"}
        /\ UNCHANGED testCases
     \/ \E n \in 0..MaxCases :
          LET cases == [i \in 1..n |-> i] IN
          /\ testCases' = cases
          /\ used' = used \cup {"GetTestCases"}
          /\ IF NoTestCases(cases) THEN Return(PASSED, NilErr) ELSE Goto("setupMocks")
  /\ UNCHANGED <<toolVars, cfgVars, envVars, startVars, testSetID, caseIdx, success, failure,
                 testSetStatus, testSetStatusByErrChan, loopErr, testCasesCount,
                 testCaseResults, exitLoopChan, appErrChan, supPc, watPc, calls,
                 nInsertReport, nUpdateMocks,
                 mockNames>>

\* the call r.instrumentation.SetMocks made for the window [after, before]
SetMocksCall(after, before) == <<"SetMocks", <<after, before>>>>

\* SetupOrUpdateMocks(ctx, appID, testSetID, afterTime, beforeTime, action) can end
\* "ok" (nil), or with the error of GetMocks, MockOutgoing (Start only) or SetMocks
SetupOutcomes(action) ==
  IF BasePath THEN {"ok"}
  ELSE {"ok", "getMocks", "setMocks"}
         \cup (IF action = "start" THEN {"mockOutgoing"} ELSE {})

\* the methods of the mock store and of the instrumentation, other than SetMocks,
\* SetupOrUpdateMocks has called when it ends with outcome: GetMocks calls
\* GetFilteredMocks, then GetUnFilteredMocks unless the first failed (getUnFiltered
\* tells whether the second was reached); MockOutgoing follows for the Start action
SetupUses(action, outcome, getUnFiltered) ==
  IF BasePath THEN {}
  ELSE {"GetFilteredMocks"}
         \cup (IF outcome # "getMocks" \/ getUnFiltered
                THEN {"GetUnFilteredMocks"} ELSE {})
         \cup (IF action = "start" /\ outcome # "getMocks"
                THEN {"MockOutgoing"} ELSE {})

\* a SetupOrUpdateMocks that sets the mocks twice
SetupOrUpdateMocksTwice(after, before, action, outcome) ==
  IF BasePath \/ outcome \in {"getMocks", "mockOutgoing"}
    THEN <<>>
    ELSE <<SetMocksCall(after, before), SetMocksCall(after, before)>>

\* the SetMocks calls SetupOrUpdateMocks has made when it ends with outcome
SetupOrUpdateMocks(after, before, action, outcome) ==
  IF BasePath \/ outcome \in {"getMocks", "mockOutgoing"}
    THEN <<>>
    ELSE <<SetMocksCall(after, before)>>

\* err = r.SetupOrUpdateMocks(runTestSetCtx, appID, testSetID, models.BaseTime, time.Now(), Start)
\* then, without base path, runTestSetErrGrp.Go(RunApplication) (Start passes
\* serveTest = false) and runTestSetErrGrp.Go(watcher)
SetupMocks ==
  /\ rpc = "setupMocks"
  /\ \E outcome \in SetupOutcomes("start"), getUnFiltered \in BOOLEAN :
       /\ calls' = calls \o SetupOrUpdateMocks(BaseTime, Now, "start", outcome)
       /\ used' = used \cup SetupUses("start", outcome, getUnFiltered)
       /\ IF outcome # "ok"
            THEN /\ Return(FAILED, OtherErr)
                 /\ UNCHANGED <<supPc, watPc>>
            ELSE IF BasePath
              THEN /\ Goto("seed")
                   /\ UNCHANGED <<supPc, watPc>>
              ELSE /\ Goto("warmup")
                   /\ supPc' = "run"
                   /\ watPc' = "select"
  /\ UNCHANGED <<toolVars, cfgVars, envVars, startVars, runLocals, exitLoopChan, appErrChan,
                 nInsertReport, nUpdateMocks,
                 mockNames>>

\* select { case <-time.After(delay): ; case <-runTestSetCtx.Done(): return USER_ABORT }
\* then, for a docker command, GetContainerIP
Warmup ==
  /\ rpc = "warmup"
  /\ \/ /\ RunCtxDone
        /\ Return(USER_ABORT, CanceledErr)
        /\ UNCHANGED used
     \/ /\ DockerKind
        /\ used' = used \cup {"GetContainerIP"}
        /\ Return(FAILED, OtherErr)
     \/ /\ used' = IF DockerKind THEN used \cup {"GetContainerIP"} ELSE used
        /\ Goto("seed")
  /\ UNCHANGED <<toolVars, cfgVars, envVars, startVars, runLocals, exitLoopChan, appErrChan,
                 supPc, watPc, calls, nInsertReport, nUpdateMocks,
                 mockNames>>

\* a count that ignores the selection
TestCasesCountStored(ts, cases) == Len(cases)

\* testCasesCount := len(testCases); if len(selectedTests) != 0 { = len(selectedTests) }
TestCasesCount(ts, cases) ==
  IF selectedTests(ts) # {} THEN Cardinality(selectedTests(ts)) ELSE Len(cases)

\* testReport := &models.TestReport{Total: testCasesCount, Status: RUNNING}
SeedReport(count) ==
  [Status |-> RUNNING, Total |-> count, Success |-> 0, Failure |-> 0, Tests |-> 0]

\* err = r.reportDB.InsertReport(runTestSetCtx, testRunID, testSetID, testReport)
Seed ==
  /\ rpc = "seed"
  /\ testCasesCount' = TestCasesCount(testSetID, testCases)
  /\ nInsertReport' = nInsertReport + 1
  /\ \/ /\ Return(FAILED, OtherErr)
        /\ UNCHANGED reportDB
     \/ /\ reportDB' = SeedReport(TestCasesCount(testSetID, testCases))
        /\ Goto("loop")
  /\ UNCHANGED <<toolVars, cfgVars, parentCanceled, resultDB, sealed, startVars, testSetID,
                 testCases, caseIdx, success, failure, testSetStatus,
                 testSetStatusByErrChan, loopErr, testCaseResults, exitLoopChan,
                 appErrChan, supPc, watPc, calls, nUpdateMocks, mockNames,
                 used>>

\* a loop that skips no case
SkipTestCaseNever(ts, c) == FALSE

\* _, ok := selectedTests[testCase.Name]; !ok && len(selectedTests) != 0
SkipTestCase(ts, c) == c \notin selectedTests(ts) /\ selectedTests(ts) # {}

\* a loop that never looks at exitLoopChan
ExitLoopNever == FALSE

\* select { case <-exitLoopChan: ... default: } at the head of an iteration: a value
\* is ready to be received
ExitLoop == exitLoopChan # <<>>

\* head of the per-case loop: range, selection, non-blocking check of exitLoopChan
LoopHead ==
  /\ rpc = "loop"
  /\ LET i == caseIdx + 1 IN
     IF i > Len(testCases)
       THEN /\ Goto("postScript")
            /\ UNCHANGED <<caseIdx, testSetStatus, exitLoopChan>>
       ELSE IF SkipTestCase(testSetID, testCases[i])
         THEN /\ caseIdx' = i
              /\ Goto("loop")
              /\ UNCHANGED <<testSetStatus, exitLoopChan>>
         ELSE IF ExitLoop
           THEN \* testSetStatus = testSetStatusByErrChan; exitLoop = true; break
                /\ exitLoopChan' = Tail(exitLoopChan)
                /\ testSetStatus' = testSetStatusByErrChan
                /\ caseIdx' = i
                /\ Goto("postScript")
           ELSE /\ caseIdx' = i
                /\ Goto("case")
                /\ UNCHANGED <<testSetStatus, exitLoopChan>>
  /\ UNCHANGED <<toolVars, cfgVars, envVars, startVars, testSetID, testCases, success, failure,
                 testSetStatusByErrChan, loopErr, testCasesCount, testCaseResults,
                 appErrChan, supPc, watPc, obsVars>>

\* a loop that passes the window of the previous test case
UpdateWindowStale(c) == IF c = 1 THEN <<BaseTime, Now>> ELSE CaseWindow(c - 1)

\* the window the loop passes to SetupOrUpdateMocks for the test case c
UpdateWindow(c) == CaseWindow(c)

\* testPass, testResult = r.compareResp(testCase, resp, testSetID): the verdict of
\* the Noise Engine, which always comes with a Result
compareResp == [testPass : BOOLEAN, hasResult : {TRUE}]

\* The ways the body of the loop can go for one test case:
\*   getMocks, setMocks  SetupOrUpdateMocks returned the error of that call: break
\*   hostToIP            utils.ReplaceHostToIP failed (docker, no base path): break
\*   simulate            SimulateRequest returned an error: failure++; continue
\*   compared            compareResp returned testPass and, if hasResult, a result;
\*                       testResult == nil: break; else InsertTestCaseResult stores
\*                       the result (inserted) or returns an error: break
CaseOutcomes ==
  [end : (IF BasePath THEN {} ELSE {"getMocks", "setMocks"})
           \cup (IF DockerKind /\ ~BasePath THEN {"hostToIP"} ELSE {})
           \cup {"simulate"},
   testPass : {FALSE}, hasResult : {FALSE}, inserted : {FALSE}]
  \cup {o \in [end : {"compared"}, testPass : BOOLEAN, hasResult : BOOLEAN,
               inserted : BOOLEAN] :
          /\ [testPass |-> o.testPass, hasResult |-> o.hasResult] \in compareResp
          /\ o.inserted => o.hasResult}

\* a loop that goes on with the next test case whatever the outcome
CaseNextContinue(o) == "loop"

\* the position of the runner after the body of the loop ended with outcome o
CaseNext(o) ==
  IF o.end = "simulate" \/ o.inserted THEN "loop" ELSE "postScript"

\* a body that stores the result before it asks for the consumed mocks
RecordCallsSwapped(c, o) ==
  (IF o.hasResult THEN <<<<"InsertTestCaseResult", c>>>> ELSE <<>>)
    \o (IF BasePath THEN <<>> ELSE <<<<"GetConsumedMocks", c>>>>)

\* the calls made after SimulateRequest returned a response for the case c:
\* GetConsumedMocks (without base path), then InsertTestCaseResult if testResult != nil
RecordCalls(c, o) ==
  (IF BasePath THEN <<>> ELSE <<<<"GetConsumedMocks", c>>>>)
    \o (IF o.hasResult
          THEN <<<<"InsertTestCaseResult", c>>>> ELSE <<>>)

\* the calls the body of the loop makes for the case c when it goes as outcome o
CaseCalls(c, o) ==
  SetupOrUpdateMocks(UpdateWindow(c)[1], UpdateWindow(c)[2], "update",
                     IF o.end \in {"getMocks", "setMocks"} THEN o.end ELSE "ok")
    \o (IF o.end \in {"simulate", "compared"}
          THEN <<<<"SimulateRequest", c, o.end = "compared">>>> ELSE <<>>)
    \o (IF o.end = "compared" THEN RecordCalls(c, o) ELSE <<>>)

\* a body that counts a failed comparison only
FailureAfterComparisonOnly(o) ==
  IF o.end = "compared" /\ ~o.testPass THEN failure + 1 ELSE failure

\* failure after the body of the loop: failure++ on a SimulateRequest error and on
\* a failed comparison
FailureAfter(o) ==
  IF o.end = "simulate" \/ (o.end = "compared" /\ ~o.testPass)
    THEN failure + 1 ELSE failure

\* testSetStatus after the body of the loop: FAILED is set on a failed comparison only
StatusAfter(o) ==
  IF o.end = "compared" /\ ~o.testPass THEN FAILED ELSE testSetStatus

\* the body of the loop for testCases[caseIdx]: SetupOrUpdateMocks(Update),
\* ReplaceHostToIP, SimulateRequest, GetConsumedMocks, compareResp, the counters,
\* InsertTestCaseResult.  resp, loopErr := ... and loopErr = InsertTestCaseResult(...)
\* assign the loopErr declared in the body: the one declared before the loop stays nil
RunCase ==
  /\ rpc = "case"
  /\ \E o \in CaseOutcomes :
       LET c == testCases[caseIdx] IN
       /\ calls' = calls \o CaseCalls(c, o)
       /\ used' = used \cup SetupUses("update",
                                      IF o.end \in {"getMocks", "setMocks"}
                                        THEN o.end ELSE "ok", TRUE)
       /\ success' = IF o.end = "compared" /\ o.testPass THEN success + 1 ELSE success
       /\ failure' = FailureAfter(o)
       /\ testSetStatus' = StatusAfter(o)
       /\ resultDB' = IF o.inserted
                        THEN Append(resultDB,
                               [TestCaseID |-> c,
                                Status |-> IF o.testPass THEN PASSED ELSE FAILED])
                        ELSE resultDB
       /\ Goto(CaseNext(o))
  /\ UNCHANGED <<toolVars, cfgVars, parentCanceled, reportDB, sealed, startVars, testSetID,
                 testCases, caseIdx, testSetStatusByErrChan, loopErr, testCasesCount,
                 testCaseResults, exitLoopChan, appErrChan, supPc, watPc,
                 nInsertReport, nUpdateMocks,
                 mockNames>>

\* if r.config.Test.BasePath != "" { err = r.executeScript(runTestSetCtx, postscript) }
\* testCaseResults, err := r.reportDB.GetTestCaseResults(runTestSetCtx, ...)
PostScript ==
  /\ rpc = "postScript"
  /\ \/ \* the post-script fails
        /\ BasePath
        /\ Return(FAULT_SCRIPT, OtherErr)
        /\ UNCHANGED <<testCaseResults, testSetStatus>>
     \/ \* GetTestCaseResults fails: INTERNAL_ERR unless runTestSetCtx.Err() is Canceled
        /\ testCaseResults' = 0
        /\ testSetStatus' = IF RunCtxDone THEN testSetStatus ELSE INTERNAL_ERR
        /\ Goto("finalize")
     \/ /\ testCaseResults' = Len(resultDB)
        /\ Goto("finalize")
        /\ UNCHANGED testSetStatus
  /\ UNCHANGED <<toolVars, cfgVars, envVars, startVars, testSetID, testCases, caseIdx, success,
                 failure, testSetStatusByErrChan, loopErr, testCasesCount,
                 exitLoopChan, appErrChan, supPc, watPc, obsVars>>

\* if loopErr != nil && !errors.Is(loopErr, context.Canceled)
LoopFailed == loopErr # NilErr /\ loopErr # CanceledErr

\* the status after "Checking errors for final iteration": INTERNAL_ERR for a loop
\* error that is not a cancellation, else the status signaled on exitLoopChan if any
FinalStatus ==
  IF LoopFailed THEN INTERNAL_ERR
  ELSE IF exitLoopChan # <<>> THEN testSetStatusByErrChan
  ELSE testSetStatus

\* testReport = &models.TestReport{Status: testSetStatus, Total: testCasesCount, ...}
FinalReport(status) ==
  [Status |-> status, Total |-> testCasesCount, Success |-> success,
   Failure |-> failure, Tests |-> testCaseResults]

\* a guard that prunes whatever the terminal status
PruneGuardAnyStatus(status) == RemoveUnusedMocks /\ ~BasePath

\* if r.config.Test.RemoveUnusedMocks && testSetStatus == PASSED && BasePath == ""
PruneGuard(status) == RemoveUnusedMocks /\ status = PASSED /\ ~BasePath

\* the names of the mocks the application consumed while the case c was replayed:
\* the mock recorded with the case
ConsumedMocks(c) == {c}

\* the cases of the set for which the loop called GetConsumedMocks
GetConsumedMocksCalls ==
  {calls[k][2] : k \in {i \in 1..Len(calls) : calls[i][1] = "GetConsumedMocks"}}

\* consumedMocks, err = r.instrumentation.GetConsumedMocks(runTestSetCtx, appID) for
\* the case c: the names of the consumed mocks, or no name with an error, which is
\* only logged
GetConsumedMocks(c, ok) == IF ok THEN ConsumedMocks(c) ELSE {}

\* totalConsumedMocks after the loop, under RemoveUnusedMocks: the names returned by
\* the GetConsumedMocks calls of the loop, of which those for gotMocks returned
\* without error.  The outcome of a call shows in totalConsumedMocks alone, which is
\* read by UpdateMocks alone: the model draws the outcomes there
totalConsumedMocks(gotMocks) ==
  UNION {GetConsumedMocks(c, c \in gotMocks) : c \in GetConsumedMocksCalls}

\* the final check of loopErr and exitLoopChan, then
\* err = r.reportDB.InsertReport(reportCtx, testRunID, testSetID, testReport),
\* r.mockDB.UpdateMocks(...) under PruneGuard, the verdict, the telemetry and
\* return testSetStatus, nil
Finalize ==
  /\ rpc = "finalize"
  /\ testSetStatus' = FinalStatus
  /\ exitLoopChan' = IF ~LoopFailed /\ exitLoopChan # <<>>
                       THEN Tail(exitLoopChan) ELSE exitLoopChan
  /\ nInsertReport' = nInsertReport + 1
  /\ \/ /\ Return(INTERNAL_ERR, OtherErr)
        /\ UNCHANGED <<reportDB, sealed, nUpdateMocks, mockNames>>
     \/ /\ reportDB' = FinalReport(FinalStatus)
        /\ sealed' = sealed \cup {testSetID}
        /\ nUpdateMocks' = IF PruneGuard(FinalStatus)
                             THEN nUpdateMocks + 1 ELSE nUpdateMocks
        /\ IF PruneGuard(FinalStatus)
             THEN \E gotMocks \in SUBSET GetConsumedMocksCalls :
                    mockNames' = totalConsumedMocks(gotMocks)
             ELSE UNCHANGED mockNames
        /\ Return(FinalStatus, NilErr)
  /\ UNCHANGED <<toolVars, cfgVars, parentCanceled, resultDB, startVars, testSetID, testCases,
                 caseIdx, success, failure, testSetStatusByErrChan, loopErr,
                 testCasesCount, testCaseResults, appErrChan, supPc, watPc, calls,
                 used>>

\* a deferred function that does not wait for the tasks
WaitSkipped == TRUE

\* err := runTestSetErrGrp.Wait() returns: every task the group spawned has returned
Wait == supPc \in {"none", "done"} /\ watPc \in {"none", "done"}

\* deferred function of RunTestSet: runTestSetErrGrp.Wait(); close(exitLoopChan)
DeferWait ==
  /\ rpc = "wait"
  /\ Wait
  /\ rpc' = "returned"
  /\ UNCHANGED <<toolVars, cfgVars, envVars, startVars, runLocals, retStatus, retErr, taskVars,
                 obsVars>>

\* ----------------------------------------------------------------------
\* The app supervisor task
\* ----------------------------------------------------------------------
\* appErr = r.RunApplication(runTestSetCtx, appID, ...): Run returns ErrCtxCanceled
\* (only once its scope is canceled) and the task returns nil, or it returns another
\* AppError, which the task sends
SupervisorRun ==
  /\ supPc = "run"
  /\ \/ /\ RunCtxDone
        /\ supPc' = "done"
     \/ supPc' = "send"
  /\ UNCHANGED <<toolVars, cfgVars, envVars, startVars, runVars, runCtxCanceled, exitLoopChan,
                 appErrChan, watPc, obsVars>>

\* appErrChan <- appErr; return nil.  The AppErrorType of appErr is read by the
\* watcher alone: the model draws it there
SupervisorSend ==
  /\ supPc = "send"
  /\ Len(appErrChan) < AppErrChanCap
  /\ appErrChan' = Append(appErrChan, "appErr")
  /\ supPc' = "done"
  /\ UNCHANGED <<toolVars, cfgVars, envVars, startVars, runVars, runCtxCanceled, exitLoopChan,
                 watPc, obsVars>>

\* a watcher that records no status for an AppError
StatusOfAppErrorUnrecorded(e) == RUNNING

\* ----------------------------------------------------------------------
\* The exit-condition watcher task
\* ----------------------------------------------------------------------
\* switch err.AppErrorType
StatusOfAppError(e) ==
  CASE e = ErrCommandError -> FAULT_USER_APP
    [] e = ErrUnExpected -> APP_HALTED
    [] e = ErrAppStopped -> APP_HALTED
    [] e = ErrInternal -> INTERNAL_ERR
    [] OTHER -> APP_HALTED

\* the AppErrorTypes of the errors the supervisor sends
SentAppErrorTypes == AppErrorTypes \ {ErrCtxCanceled}

\* select { case err := <-appErrChan: ...; case <-runTestSetCtx.Done(): USER_ABORT }
WatcherSelect ==
  /\ watPc = "select"
  /\ \/ /\ appErrChan # <<>>
        /\ appErrChan' = Tail(appErrChan)
        /\ \E e \in SentAppErrorTypes :
             testSetStatusByErrChan' = StatusOfAppError(e)
     \/ /\ RunCtxDone
        /\ testSetStatusByErrChan' = USER_ABORT
        /\ UNCHANGED appErrChan
  /\ watPc' = "send"
  /\ UNCHANGED <<toolVars, cfgVars, envVars, startVars, rpc, testSetID, testCases, caseIdx,
                 success, failure, testSetStatus, loopErr, testCasesCount,
                 testCaseResults, retStatus, retErr, runCtxCanceled, exitLoopChan,
                 supPc, obsVars>>

\* exitLoopChan <- true
WatcherSend ==
  /\ watPc = "send"
  /\ Len(exitLoopChan) < ExitLoopChanCap
  /\ exitLoopChan' = Append(exitLoopChan, TRUE)
  /\ watPc' = "cancel"
  /\ UNCHANGED <<toolVars, cfgVars, envVars, startVars, runVars, runCtxCanceled, appErrChan,
                 supPc, obsVars>>

\* runTestSetCtxCancel(); return nil
WatcherCancel ==
  /\ watPc = "cancel"
  /\ runCtxCanceled' = TRUE
  /\ watPc' = "done"
  /\ UNCHANGED <<toolVars, cfgVars, envVars, startVars, rpc, runLocals, retStatus, retErr,
                 exitLoopChan, appErrChan, supPc, obsVars>>

\* ----------------------------------------------------------------------
\* Normalize
\* ----------------------------------------------------------------------
\* pkg.LastID(testRunIDs, models.TestRunTemplateName): the most recent test run
LastID(ids) == IF ids = <<>> THEN 0 ELSE ids[Len(ids)]

\* testCaseResultMap[testCase.Name].Res in the report of a test run: the response the
\* run observed, which differs from run to run and from the recorded one
Res(run, set, c) == run

\* return err from Normalize
NormalizeReturn(err) ==
  /\ normErrs' = Append(normErrs, err)
  /\ npc' = "idle"
  /\ testRun' = 0
  /\ normIdx' = 0

\* var testRun string; if r.config.Normalize.TestRun == "" { testRunIDs, err :=
\* r.reportDB.GetAllTestRunIDs(ctx); ...; testRun = pkg.LastID(...) }
NormalizeBegin ==
  /\ npc = "idle"
  /\ Len(normErrs) < MaxNormalize
  /\ IF NormalizeTestRun = 0
       THEN \/ \E err \in CallErrors : NormalizeReturn(err)
            \/ /\ testRun' = LastID(testRunIDs)
               /\ npc' = "selection"
               /\ UNCHANGED <<normErrs, normIdx>>
       ELSE /\ npc' = "selection"
            /\ UNCHANGED <<testRun, normErrs, normIdx>>
  /\ UNCHANGED <<replayVars, denoiseVars, NormalizeTestRun, NormalizeSelectedTests,
                 testRunIDs, reportStatus, HTTPResp, getReportRuns,
                 updateTestCaseCalls>>

\* if len(r.config.Normalize.SelectedTests) == 0 { GetAllTestSetIDs; append each }
NormalizeSelection ==
  /\ npc = "selection"
  /\ IF Len(NormalizeSelectedTests) = 0
       THEN \/ /\ \E err \in CallErrors : NormalizeReturn(err)
               /\ UNCHANGED NormalizeSelectedTests
            \/ /\ NormalizeSelectedTests' =
                    [i \in 1..MaxSets |-> [TestSet |-> i, Tests |-> {}]]
               /\ npc' = "loop"
               /\ UNCHANGED <<testRun, normErrs, normIdx>>
       ELSE /\ npc' = "loop"
            /\ UNCHANGED <<NormalizeSelectedTests, testRun, normErrs, normIdx>>
  /\ UNCHANGED <<replayVars, denoiseVars, NormalizeTestRun, testRunIDs, reportStatus,
                 HTTPResp, getReportRuns,
                 updateTestCaseCalls>>

\* selectedTestCases: all the stored cases of the set, or those named in the selection
selectedTestCases(tests) ==
  SelectSeq([i \in 1..MaxCases |-> i], LAMBDA c : tests = {} \/ c \in tests)

\* a NormalizeTestCases that rewrites every selected case
ToUpdateAllSelected(tests) == selectedTestCases(tests)

\* the selected cases NormalizeTestCases rewrites: found in the report with a status
\* other than PASSED
ToUpdate(tests) ==
  SelectSeq(selectedTestCases(tests), LAMBDA c : reportStatus[c] \notin {"absent", PASSED})

\* an update that adds the response to the stored one
UpdatedHTTPRespAdded(run, set, c) == HTTPResp[<<set, c>>] + Res(run, set, c)

\* testCase.HTTPResp = testCaseResultMap[testCase.Name].Res
UpdatedHTTPResp(run, set, c) == Res(run, set, c)

\* the stored responses after NormalizeTestCases(ctx, run, set, tests, nil) has made
\* n calls of UpdateTestCase that succeeded
NormalizeTestCases(run, set, tests, n) ==
  [sc \in DOMAIN HTTPResp |->
     IF sc[1] = set /\ \E j \in 1..n : ToUpdate(tests)[j] = sc[2]
       THEN UpdatedHTTPResp(run, set, sc[2])
       ELSE HTTPResp[sc]]

\* the cases of the first n calls r.testDB.UpdateTestCase(ctx, testCase, testSetID)
\* NormalizeTestCases makes for the set
UpdateTestCaseCalls(set, tests, n) == {<<set, ToUpdate(tests)[j]>> : j \in 1..n}

\* for _, testSet := range r.config.Normalize.SelectedTests {
\*   err := r.NormalizeTestCases(ctx, testRun, testSetID, testCases, nil) ...}
\* GetReport fails for a test run the store does not hold; GetReport, GetTestCases
\* and each UpdateTestCase can fail
NormalizeSet ==
  /\ npc = "loop"
  /\ normIdx < Len(NormalizeSelectedTests)
  /\ LET sel == NormalizeSelectedTests[normIdx + 1]
         todo == ToUpdate(sel.Tests)
     IN /\ getReportRuns' = getReportRuns \cup {testRun}
        /\ \/ \* GetReport fails, or GetTestCases fails
              /\ NormalizeReturn(OtherErr)
              /\ UNCHANGED <<HTTPResp, updateTestCaseCalls>>
           \/ \* UpdateTestCase fails after n calls succeeded
              /\ \E i \in 1..Len(testRunIDs) : testRunIDs[i] = testRun
              /\ \E n \in 0..(Len(todo) - 1) :
                   /\ HTTPResp' = NormalizeTestCases(testRun, sel.TestSet, sel.Tests, n)
                   /\ updateTestCaseCalls' =
                        updateTestCaseCalls \cup UpdateTestCaseCalls(sel.TestSet, sel.Tests, n + 1)
              /\ NormalizeReturn(OtherErr)
           \/ /\ \E i \in 1..Len(testRunIDs) : testRunIDs[i] = testRun
              /\ HTTPResp' = NormalizeTestCases(testRun, sel.TestSet, sel.Tests, Len(todo))
              /\ updateTestCaseCalls' =
                   updateTestCaseCalls \cup UpdateTestCaseCalls(sel.TestSet, sel.Tests, Len(todo))
              /\ normIdx' = normIdx + 1
              /\ UNCHANGED <<npc, testRun, normErrs>>
  /\ UNCHANGED <<replayVars, denoiseVars, NormalizeTestRun, NormalizeSelectedTests,
                 testRunIDs, reportStatus>>

\* the loop is over: return nil
NormalizeDone ==
  /\ npc = "loop"
  /\ normIdx = Len(NormalizeSelectedTests)
  /\ NormalizeReturn(NilErr)
  /\ UNCHANGED <<replayVars, denoiseVars, NormalizeTestRun, NormalizeSelectedTests,
                 testRunIDs, reportStatus, HTTPResp, getReportRuns,
                 updateTestCaseCalls>>

\* the values of config.Normalize.SelectedTests the model draws from
NormalizeSelections ==
  {<<>>,
   <<[TestSet |-> MaxSets, Tests |-> {}]>>,
   <<[TestSet |-> 1, Tests |-> {MaxCases}]>>,
   <<[TestSet |-> 1, Tests |-> {1}], [TestSet |-> MaxSets, Tests |-> {}]>>}

\* Normalize is called on a store that holds at least one test run
InitNormalize ==
  /\ ReplayInit
  /\ ~BasePath /\ ~RemoveUnusedMocks /\ ~DockerKind /\ SelectedTests = <<>>
  /\ DenoiseIdle
  /\ NormalizeTestRun \in 0..MaxRuns
  /\ NormalizeSelectedTests \in NormalizeSelections
  /\ testRunIDs \in {[i \in 1..n |-> i] : n \in 1..MaxRuns}
  /\ reportStatus \in [CaseNames -> {"absent", PASSED, FAILED}]
  /\ HTTPResp = [sc \in SetIDs \X CaseNames |-> 0]
  /\ npc = "idle"
  /\ testRun = 0
  /\ normIdx = 0
  /\ normErrs = <<>>
  /\ getReportRuns = {}
  /\ updateTestCaseCalls = {}

NextNormalize ==
  \/ NormalizeBegin
  \/ NormalizeSelection
  \/ NormalizeSet
  \/ NormalizeDone

SpecNormalize == InitNormalize /\ [][NextNormalize]_vars

\* ----------------------------------------------------------------------
\* DenoiseTestCases
\* ----------------------------------------------------------------------
\* the field paths a noise mask or an assertion mask can hold
Paths == {"body.id", "header.Date"}

\* mergeMaps(v.Noise, noiseParam.Assertion): the union of the two masks
mergeMaps(noise, assertion) == noise \cup assertion

\* removeFromMap(v.Noise, noiseParam.Assertion): the mask without the paths of the
\* assertion
removeFromMap(noise, assertion) == noise \ assertion

\* a denoise that merges whatever the Ops
DenoisedAlwaysMerged(ops, noise, assertion) == mergeMaps(noise, assertion)

\* if noiseParam.Ops == string(models.OpsAdd) { mergeMaps } else { removeFromMap }
Denoised(ops, noise, assertion) ==
  IF ops = "add" THEN mergeMaps(noise, assertion) ELSE removeFromMap(noise, assertion)

\* the add of a mask and the remove that follows it
RoundTrip == <<"add", "remove">>

\* DenoiseTestCases(ctx, testSetID, noiseParams) with one noiseParam {TestCaseID: c,
\* Ops: ops, Assertion: m}: GetTestCases or UpdateTestCase fails and nothing is
\* stored, or the mask of the matching case is stored; a TestCaseID that matches no
\* stored case changes nothing
DenoiseTestCases ==
  /\ Len(denoised) < Len(RoundTrip)
  /\ \E ops \in {"add", "remove"}, c \in SelectableNames, m \in SUBSET Paths :
       \/ UNCHANGED <<Noise, denoised>>
       \/ /\ Noise' = IF c \in CaseNames
                        THEN [Noise EXCEPT ![c] = Denoised(ops, Noise[c], m)]
                        ELSE Noise
          /\ denoised' = Append(denoised, <<ops, c, m>>)
  /\ UNCHANGED <<replayVars, normVars, recordedNoise>>

InitDenoise ==
  /\ ReplayInit
  /\ ~BasePath /\ ~RemoveUnusedMocks /\ ~DockerKind /\ SelectedTests = <<>>
  /\ NormalizeIdle
  /\ Noise \in [CaseNames -> SUBSET Paths]
  /\ recordedNoise = Noise
  /\ denoised = <<>>

NextDenoise == DenoiseTestCases

SpecDenoise == InitDenoise /\ [][NextDenoise]_vars

\* ----------------------------------------------------------------------
\* Specification
\* ----------------------------------------------------------------------
Next ==
  \/ CancelParent
  \/ GetAllTestSetIDs
  \/ GetNextTestRunID
  \/ Instrument
  \/ StartLoop
  \/ Classify
  \/ AfterTestHook
  \/ Telemetry
  \/ StartDefer
  \/ PreScript
  \/ GetTestCases
  \/ SetupMocks
  \/ Warmup
  \/ Seed
  \/ LoopHead
  \/ RunCase
  \/ PostScript
  \/ Finalize
  \/ DeferWait
  \/ SupervisorRun
  \/ SupervisorSend
  \/ WatcherSelect
  \/ WatcherSend
  \/ WatcherCancel

Spec == Init /\ [][Next]_vars

\* ----------------------------------------------------------------------
\* One RunTestSet invocation under fair scheduling
\* ----------------------------------------------------------------------
\* the index of the first test set of ids that the loop of Start does not skip
FirstTestSet(ids) ==
  CHOOSE i \in 1..Len(ids) :
    ~SkipTestSet(ids[i]) /\ \A j \in 1..(i - 1) : SkipTestSet(ids[j])

\* the state in which Start calls RunTestSet for the first time, on a store of
\* MaxSets test sets: GetAllTestSetIDs, GetNextTestRunID and Instrument returned
\* without error and the scope of Start is not canceled
InitRunTestSet ==
  /\ BasePath \in BOOLEAN
  /\ RemoveUnusedMocks \in BOOLEAN
  /\ DockerKind \in BOOLEAN
  /\ SelectedTests \in SelectedTestsChoices
  /\ parentCanceled = FALSE
  /\ reportDB = NoReport
  /\ resultDB = <<>>
  /\ sealed = {}
  /\ spc = "runTestSet"
  /\ testSetIDs = [i \in 1..MaxSets |-> i]
  /\ setIdx = FirstTestSet(testSetIDs)
  /\ testRunResult = TRUE
  /\ abortTestRun = FALSE
  /\ hookCancel = Instruments
  /\ startErr = "none"
  /\ ranSets = <<testSetIDs[setIdx]>>
  /\ hookedSets = {}
  /\ setStatus = [s \in SetIDs |-> "none"]
  /\ setErr = [s \in SetIDs |-> "none"]
  /\ startCalls = <<"GetAllTestSetIDs", "GetAllTestRunIDs">>
                    \o (IF Instruments THEN <<"Setup", "Hook">> ELSE <<>>)
  /\ rpc = "begin"
  /\ testSetID = testSetIDs[setIdx]
  /\ testCases = <<>>
  /\ caseIdx = 0
  /\ success = 0
  /\ failure = 0
  /\ testSetStatus = PASSED
  /\ testSetStatusByErrChan = RUNNING
  /\ loopErr = NilErr
  /\ testCasesCount = 0
  /\ testCaseResults = 0
  /\ retStatus = "none"
  /\ retErr = "none"
  /\ runCtxCanceled = FALSE
  /\ exitLoopChan = <<>>
  /\ appErrChan = <<>>
  /\ supPc = "none"
  /\ watPc = "none"
  /\ calls = <<>>
  /\ nInsertReport = 0
  /\ nUpdateMocks = 0
  /\ mockNames = {}
  /\ used = {}
  /\ NormalizeIdle
  /\ DenoiseIdle

\* the steps of the runner of one RunTestSet invocation, from its call to the return
\* of its deferred function: every collaborator call returns
RunTestSet ==
  \/ PreScript
  \/ GetTestCases
  \/ SetupMocks
  \/ Warmup
  \/ Seed
  \/ LoopHead
  \/ RunCase
  \/ PostScript
  \/ Finalize
  \/ DeferWait

\* r.RunApplication(runTestSetCtx, ...) returns once runTestSetCtx is canceled
RunApplicationReturns == SupervisorRun /\ RunCtxDone

\* the invocation, its two tasks and the cancellation of the scope of Start
NextRunTestSet ==
  \/ CancelParent
  \/ RunTestSet
  \/ SupervisorRun
  \/ SupervisorSend
  \/ WatcherSelect
  \/ WatcherSend
  \/ WatcherCancel

\* The runner and the two tasks are goroutines the scheduler keeps running: a step
\* of one of them that stays possible is taken.  Nothing makes the application stop
\* or the scope of Start be canceled.
SpecRunTestSet ==
  /\ InitRunTestSet /\ [][NextRunTestSet]_vars
  /\ WF_vars(RunTestSet)
  /\ WF_vars(RunApplicationReturns)
  /\ WF_vars(SupervisorSend)
  /\ WF_vars(WatcherSelect)
  /\ WF_vars(WatcherSend)
  /\ WF_vars(WatcherCancel)

\* ----------------------------------------------------------------------
\* Observations on calls
\* ----------------------------------------------------------------------
IsCall(k, name) == calls[k][1] = name

\* the test case a call of the loop body belongs to (0: the initial mock setup)
CaseOfCall(k) ==
  IF IsCall(k, "SetMocks")
    THEN IF \E c \in CaseNames : calls[k][2] = CaseWindow(c)
           THEN CHOOSE c \in CaseNames : calls[k][2] = CaseWindow(c)
           ELSE 0
    ELSE calls[k][2]

\* the cases SimulateRequest was issued for, in order
Driven == SelectSeq(calls, LAMBDA x : x[1] = "SimulateRequest")

\* the cases SimulateRequest returned a response for, in order
Responded == SelectSeq(calls, LAMBDA x : x[1] = "SimulateRequest" /\ x[3])

\* the report stored for the running set is a terminal one
TerminalReport == reportDB.Status \notin {"none", RUNNING}

\* the positions of the runner after the per-case loop
AfterLoop == rpc \in {"postScript", "finalize", "wait", "returned"} /\ nInsertReport > 0

\* ----------------------------------------------------------------------
\* Claims
\* ----------------------------------------------------------------------

\* C1: a terminal report whose status is PASSED has Success = Total and Failure = 0.
C1_PassedMeansAllSucceeded ==
  (TerminalReport /\ reportDB.Status = PASSED)
    => (reportDB.Success = reportDB.Total /\ reportDB.Failure = 0)

\* C2: a RunTestSet invocation that seeded a RUNNING report has issued exactly one
\* terminal InsertReport (the second of its two InsertReport calls) when it returns.
C2_SeedThenOneTerminalReport ==
  (rpc = "returned" /\ reportDB.Status # "none") => nInsertReport = 2

\* C3: when the parent scope is canceled before finalization and the watcher has
\* classified no app-supervisor error, the terminal status of the set is USER_ABORT.
C3_CancelMeansUserAbort ==
  [][(/\ rpc = "finalize" /\ rpc' # "finalize"
      /\ parentCanceled
      /\ testSetStatusByErrChan \notin AbortStatuses)
       => testSetStatus' = USER_ABORT]_vars

\* C4: mockDB.UpdateMocks is called only if pruning is enabled, no base path is
\* configured and the terminal status of the set is PASSED.
C4_PruneOnlyWhenPassed ==
  nUpdateMocks > 0
    => /\ RemoveUnusedMocks
       /\ ~BasePath
       /\ reportDB.Status = PASSED
       /\ retStatus = PASSED
       /\ nUpdateMocks = 1

C4_Witness == nUpdateMocks = 1 /\ rpc = "returned"

\* C5: without base path, the last SetMocks call before each SimulateRequest was
\* made with the window [req.Timestamp, resp.Timestamp] of the same test case.
C5_LastSetMocksHasCaseWindow ==
  ~BasePath =>
    \A k \in 1..Len(calls) :
      IsCall(k, "SimulateRequest") =>
        \E j \in 1..(k - 1) :
          /\ IsCall(j, "SetMocks")
          /\ calls[j][2] = <<ReqTimestamp(calls[k][2]), RespTimestamp(calls[k][2])>>
          /\ \A m \in (j + 1)..(k - 1) : ~IsCall(m, "SetMocks")

C5_Witness ==
  /\ ~BasePath
  /\ \E k \in 1..Len(calls) : IsCall(k, "SimulateRequest") /\ calls[k][2] = 2
  /\ \E k \in 1..Len(calls) : IsCall(k, "SimulateRequest") /\ calls[k][2] = 1

\* C6: without base path, the calls of a case occur in the order SetMocks,
\* SimulateRequest, GetConsumedMocks, InsertTestCaseResult, and no call of a later
\* case occurs before the last call of an earlier case.
C6_CallsOfCaseInOrder ==
  ~BasePath =>
    /\ \A k \in 1..Len(calls) :
         /\ IsCall(k, "SimulateRequest")
              => k > 1 /\ IsCall(k - 1, "SetMocks") /\ CaseOfCall(k - 1) = calls[k][2]
         /\ IsCall(k, "GetConsumedMocks")
              => k > 1 /\ IsCall(k - 1, "SimulateRequest") /\ CaseOfCall(k - 1) = calls[k][2]
         /\ IsCall(k, "InsertTestCaseResult")
              => k > 1 /\ IsCall(k - 1, "GetConsumedMocks") /\ CaseOfCall(k - 1) = calls[k][2]
    /\ \A j, k \in 1..Len(calls) : j < k => CaseOfCall(j) <= CaseOfCall(k)

C6_Witness ==
  /\ ~BasePath
  /\ \E k \in 1..Len(calls) : IsCall(k, "InsertTestCaseResult") /\ calls[k][2] = 1
  /\ \E k \in 1..Len(calls) : IsCall(k, "InsertTestCaseResult") /\ calls[k][2] = 2

\* C7 (as claimed): after the loop, the number of TestResult records persisted equals
\* the number of cases SimulateRequest was issued for.
C7_ResultsEqualDriven ==
  AfterLoop => Len(resultDB) = Len(Driven)

\* C7 (amended): the records persisted are, in order, the cases SimulateRequest
\* returned a response for, except possibly the last of them, when its
\* InsertTestCaseResult failed (or it had no result) and ended the loop; a case
\* whose SimulateRequest returned an error has no record.
C7_ResultsAreRespondedCases ==
  LET stored == [i \in 1..Len(resultDB) |-> resultDB[i].TestCaseID]
      responded == [i \in 1..Len(Responded) |-> Responded[i][2]]
  IN \/ stored = responded
     \/ /\ rpc # "loop"
        /\ Len(responded) = Len(stored) + 1
        /\ stored = SubSeq(responded, 1, Len(stored))

C7_Witness ==
  /\ rpc = "returned"
  /\ Len(resultDB) = 1
  /\ Len(Driven) = 2
  /\ Len(Responded) = 1

\* C8: a terminal report has Total equal to the size of the selection of the set
\* when there is one, else to the number of stored cases; it has the Total of the
\* seeded report; and Success + Failure <= Total.
C8_TerminalTotals ==
  /\ [](TerminalReport =>
          /\ reportDB.Total =
               (IF testSetID \in DOMAIN SelectedTests /\ SelectedTests[testSetID] # {}
                  THEN Cardinality(SelectedTests[testSetID])
                  ELSE Len(testCases))
          /\ reportDB.Success + reportDB.Failure <= reportDB.Total)
  /\ [][(reportDB.Status = RUNNING /\ reportDB'.Status \notin {"none", RUNNING})
          => reportDB'.Total = reportDB.Total]_vars

C8_Witness ==
  /\ TerminalReport
  /\ selectedTests(testSetID) # {}
  /\ Len(testCases) = 1
  /\ reportDB.Success + reportDB.Failure < reportDB.Total

\* C9: once the terminal report of a test set is stored, no InsertReport and no
\* InsertTestCaseResult is issued for that set, and RunTestSet is not invoked for
\* it again.
C9_NoWriteAfterTerminal ==
  [][/\ (testSetID \in sealed /\ rpc' # "idle")
          => /\ nInsertReport' = nInsertReport
             /\ calls' = calls
             /\ reportDB' = reportDB
             /\ resultDB' = resultDB
     /\ (rpc = "idle" /\ rpc' = "begin") => testSetID' \notin sealed]_vars

C9_Witness == sealed # {} /\ testSetID \notin sealed /\ rpc = "finalize"

\* the test sets Start selects that come after ts in testSetIDs
LaterSelected(ts) ==
  {testSetIDs[j] : j \in {i \in 1..Len(testSetIDs) :
                            testSetIDs[i] > ts /\ ~SkipTestSet(testSetIDs[i])}}

\* the next test set Start selects after ts, if there is one
NextSelected(ts) ==
  {t \in LaterSelected(ts) : \A u \in LaterSelected(ts) : t <= u}

RanSetIDs == {ranSets[i] : i \in 1..Len(ranSets)}

LastRan(ts) == ranSets[Len(ranSets)] = ts

StartCallsOf(names) == {k \in 1..Len(startCalls) : startCalls[k] \in names}

\* C11: the TestRun telemetry event has status "pass" if and only if every test set
\* run returned PASSED.
C11_PassIffAllPassed ==
  \A k \in StartCallsOf({"TestRun(pass)", "TestRun(fail)"}) :
    (startCalls[k] = "TestRun(pass)") <=> (\A ts \in RanSetIDs : setStatus[ts] = PASSED)

C11_Witness ==
  /\ StartCallsOf({"TestRun(fail)"}) # {}
  /\ Len(ranSets) = 2
  /\ setStatus[ranSets[1]] = FAILED
  /\ setStatus[ranSets[2]] = PASSED

\* C12: when Start has returned after Instrument returned a hook handle, the handle
\* has been invoked exactly once and the last thing Start did is to wait for the
\* tasks of its error group.
C12_ReleaseOnceThenWait ==
  (spc = "done" /\ hookCancel) =>
    /\ Cardinality(StartCallsOf({"hookCancel"})) = 1
    /\ startCalls[Len(startCalls)] = "g.Wait"
    /\ supPc \in {"none", "done"}
    /\ watPc \in {"none", "done"}

C12_Witness ==
  /\ spc = "done"
  /\ hookCancel
  /\ startErr = CanceledErr
  /\ ranSets # <<>>

\* the methods an override base-URL rules out
InstrumentationAndMockCalls ==
  {"Setup", "Hook", "MockOutgoing", "GetContainerIP", "GetFilteredMocks",
   "GetUnFilteredMocks"}

\* C13: with a base path, Start and RunTestSet call none of Setup, Hook,
\* MockOutgoing, SetMocks, Run, GetConsumedMocks, GetContainerIP, GetFilteredMocks,
\* GetUnFilteredMocks, UpdateMocks, and spawn neither the supervisor nor the watcher.
C13_OverrideTouchesNothing ==
  BasePath =>
    /\ StartCallsOf(InstrumentationAndMockCalls) = {}
    /\ used \cap InstrumentationAndMockCalls = {}
    /\ \A k \in 1..Len(calls) : ~IsCall(k, "SetMocks") /\ ~IsCall(k, "GetConsumedMocks")
    /\ nUpdateMocks = 0
    /\ supPc = "none"
    /\ watPc = "none"
    /\ ~hookCancel

C13_Witness ==
  /\ BasePath
  /\ RemoveUnusedMocks
  /\ DockerKind
  /\ rpc = "returned"
  /\ retStatus = PASSED
  /\ Len(resultDB) = 2

\* C14: when the store lists no test sets, Start returns a non-nil error and has
\* written no report, driven no test case, requested no test-run ID, started no
\* instrumentation and emitted no telemetry event.
C14_NoTestSetsNothingDone ==
  (startCalls # <<>> /\ startCalls[1] = "GetAllTestSetIDs" /\ testSetIDs = <<>>) =>
    /\ spc \in {"defer", "done"}
    /\ startErr = OtherErr
    /\ StartCallsOf({"GetAllTestRunIDs", "Setup", "Hook", "TestRun(pass)",
                     "TestRun(fail)"}) = {}
    /\ ranSets = <<>>
    /\ rpc = "idle"
    /\ nInsertReport = 0
    /\ reportDB = NoReport
    /\ resultDB = <<>>
    /\ calls = <<>>

C14_Witness ==
  /\ startCalls = <<"GetAllTestSetIDs", "g.Wait">>
  /\ testSetIDs = <<>>
  /\ spc = "done"

\* GetTestCases returned an empty list to the invocation that has returned
ReturnedWithoutCases ==
  rpc = "returned" /\ "GetTestCases" \in used /\ testCases = <<>>

\* C15 (as claimed): when GetTestCases returns an empty list, RunTestSet returns
\* PASSED with a nil error and a PASSED report with Total = 0 exists for the set.
C15_EmptySetHasPassedReport ==
  ReturnedWithoutCases =>
    /\ retStatus = PASSED
    /\ retErr = NilErr
    /\ reportDB.Status = PASSED
    /\ reportDB.Total = 0

\* C15 (amended): when GetTestCases returns an empty list, RunTestSet returns PASSED
\* with a nil error without writing any report or result and without any further
\* call.
C15_EmptySetPassedWithoutReport ==
  ReturnedWithoutCases =>
    /\ retStatus = PASSED
    /\ retErr = NilErr
    /\ nInsertReport = 0
    /\ reportDB = NoReport
    /\ resultDB = <<>>
    /\ calls = <<>>
    /\ used = {"GetTestCases"}
    /\ testSetID \notin sealed

C15_Witness ==
  /\ ReturnedWithoutCases
  /\ Len(ranSets) = 2
  /\ setStatus[ranSets[1]] = PASSED

\* C16 (as claimed): an execution of Normalize that follows another one changes no
\* stored HTTPResp.
C16_SecondNormalizeChangesNothing ==
  [][normErrs # <<>> => HTTPResp' = HTTPResp]_vars

\* C16 (amended): once an execution of Normalize has returned nil, a later execution
\* with the same test run and selection changes no stored HTTPResp.
C16_NormalizeIdempotentAfterSuccess ==
  [][(normErrs # <<>> /\ normErrs[1] = NilErr) => HTTPResp' = HTTPResp]_vars

C16_Witness ==
  /\ normErrs = <<NilErr, NilErr>>
  /\ \E sc \in DOMAIN HTTPResp : HTTPResp[sc] # 0
  /\ \E sc \in DOMAIN HTTPResp : HTTPResp[sc] = 0

\* the test run Normalize is to read: the configured one, else the most recent
SelectedTestRun ==
  IF NormalizeTestRun # 0 THEN NormalizeTestRun ELSE LastID(testRunIDs)

\* C18: every GetReport call of Normalize is made with the configured test run when
\* one is configured, else with the most recent one, and never with an empty ID.
C18_ReadsSelectedTestRun ==
  \A run \in getReportRuns : run = SelectedTestRun /\ run # 0

\* the two calls that returned nil are the add and the remove of one mask for one
\* stored test case
AddThenRemove ==
  /\ Len(denoised) = Len(RoundTrip)
  /\ denoised[1][1] = "add"
  /\ denoised[2][1] = "remove"
  /\ denoised[1][2] = denoised[2][2]
  /\ denoised[1][3] = denoised[2][3]
  /\ denoised[1][2] \in CaseNames

SetMocksBetween(j, k) == {i \in (j + 1)..(k - 1) : IsCall(i, "SetMocks")}

\* the calls j < k are the SimulateRequest calls of two consecutive driven cases
ConsecutiveDriven(j, k) ==
  /\ j < k
  /\ IsCall(j, "SimulateRequest")
  /\ IsCall(k, "SimulateRequest")
  /\ \A i \in (j + 1)..(k - 1) : ~IsCall(i, "SimulateRequest")

\* C19 (as claimed): between the SimulateRequest calls of two consecutive driven
\* cases exactly one SetMocks call occurs.
C19_OneSetMocksBetweenCases ==
  \A j, k \in 1..Len(calls) :
    ConsecutiveDriven(j, k) => Cardinality(SetMocksBetween(j, k)) = 1

\* C19 (amended): without base path, between the SimulateRequest calls of two
\* consecutive driven cases exactly one SetMocks call occurs; with a base path none
\* occurs.
C19_OneSetMocksBetweenCasesUnlessOverride ==
  \A j, k \in 1..Len(calls) :
    ConsecutiveDriven(j, k) =>
      Cardinality(SetMocksBetween(j, k)) = (IF BasePath THEN 0 ELSE 1)

C19_Witness ==
  /\ ~BasePath
  /\ \E j, k \in 1..Len(calls) :
       /\ ConsecutiveDriven(j, k)
       /\ ~calls[j][3]
       /\ calls[k][3]

\* InsertTestCaseResult was called for a case and stored nothing: it returned an error
InsertFailed ==
  \E k \in 1..Len(calls) :
    /\ IsCall(k, "InsertTestCaseResult")
    /\ \A i \in 1..Len(resultDB) : resultDB[i].TestCaseID # calls[k][2]

\* C20: when InsertTestCaseResult returns an error for a case, no later case is
\* driven and the terminal status of the set is INTERNAL_ERR.
C20_InsertErrorIsInternalErr ==
  InsertFailed =>
    /\ IsCall(Len(calls), "InsertTestCaseResult")
    /\ rpc \notin {"loop", "case"}
    /\ TerminalReport => reportDB.Status = INTERNAL_ERR

\* the step appends calls whose last one is SimulateRequest for the case c
\* returning an error
SimulateFailedStep(c) ==
  /\ Len(calls') > Len(calls)
  /\ calls'[Len(calls')][1] = "SimulateRequest"
  /\ calls'[Len(calls')][2] = c
  /\ ~calls'[Len(calls')][3]

\* C21: when SimulateRequest returns an error for a case, failure grows by exactly
\* one, success is unchanged, no TestResult is inserted and GetConsumedMocks is not
\* called for the case (the failed SimulateRequest is the last call of the
\* iteration), and the runner is back at the head of the loop for the next case with
\* testSetStatus and loopErr as they were: the error neither ends the loop nor
\* produces INTERNAL_ERR.
C21_SimulateErrorCountsAndContinues ==
  [][\A c \in CaseNames :
       SimulateFailedStep(c) =>
         /\ failure' = failure + 1
         /\ success' = success
         /\ resultDB' = resultDB
         /\ rpc = "case" /\ rpc' = "loop"
         /\ caseIdx' = caseIdx /\ testCases[caseIdx] = c
         /\ testSetStatus' = testSetStatus
         /\ loopErr' = loopErr]_vars

\* SimulateRequest failed for the first case, the second was driven after it, and the
\* terminal report counts one failure and one success
C21_Witness ==
  /\ TerminalReport
  /\ reportDB.Failure = 1 /\ reportDB.Success = 1
  /\ \E j, k \in 1..Len(calls) :
       /\ j < k
       /\ IsCall(j, "SimulateRequest") /\ ~calls[j][3] /\ calls[j][2] = 1
       /\ IsCall(k, "SimulateRequest") /\ calls[k][3] /\ calls[k][2] = 2

\* the statuses the watcher records for an AppError
AppErrorStatuses == {StatusOfAppError(e) : e \in SentAppErrorTypes}

\* the watcher signaled exitLoopChan for an AppError and the loop received the signal
\* at the head of an iteration, where a selected case remained to be driven
SignalTaken ==
  /\ rpc \in {"postScript", "finalize"}
  /\ watPc \in {"cancel", "done"}
  /\ exitLoopChan = <<>>
  /\ testSetStatusByErrChan \in AppErrorStatuses

TaskAlive == supPc \in {"run", "send"} \/ watPc \in {"select", "send", "cancel"}

\* C23: whenever RunTestSet has returned (and until the next invocation spawns its
\* tasks), the app supervisor task and the exit-condition watcher task of the
\* invocation have both returned: a task is alive only between the spawn and the
\* deferred wait of its own invocation, so tasks of two test sets never coexist.
C23_TasksReturnedBeforeReturn ==
  TaskAlive => rpc \in {"warmup", "seed", "loop", "case", "postScript", "finalize", "wait"}

\* RunTestSet returned USER_ABORT from the warmup delay after both tasks, which it
\* had spawned, returned
C23_Witness ==
  /\ rpc = "returned"
  /\ retStatus = USER_ABORT /\ retErr = CanceledErr
  /\ supPc = "done" /\ watPc = "done"
  /\ nInsertReport = 0

\* the cases GetConsumedMocks was called for: those SimulateRequest returned a
\* response for
RespondedCases == {Responded[i][2] : i \in 1..Len(Responded)}

\* C24: when pruning runs for a set, UpdateMocks is called exactly once, after the
\* per-case loop and after the terminal report is written, and the mock names it
\* receives are those consumed by the cases of the set that got a response: none of
\* them is missing.
C24_PruneReceivesAllConsumed ==
  nUpdateMocks > 0 =>
    /\ nUpdateMocks = 1
    /\ AfterLoop
    /\ TerminalReport
    /\ mockNames = UNION {ConsumedMocks(c) : c \in RespondedCases}

\* the position of the case c in the stored order of the running set
StoredPosition(c) == CHOOSE p \in 1..Len(testCases) : testCases[p] = c

\* C25: within one test set the cases SimulateRequest is issued for are stored cases
\* of the set, issued in the stored order and each at most once (their stored
\* positions strictly increase), and when the set has a per-set selection they all
\* belong to it.
C25_DrivenInStoredOrder ==
  /\ \A i \in 1..Len(Driven) :
       /\ \E p \in 1..Len(testCases) : testCases[p] = Driven[i][2]
       /\ (testSetID \in DOMAIN SelectedTests /\ SelectedTests[testSetID] # {})
            => Driven[i][2] \in SelectedTests[testSetID]
  /\ \A i, j \in 1..Len(Driven) :
       i < j => StoredPosition(Driven[i][2]) < StoredPosition(Driven[j][2])

\* a set of two stored cases with a selection that names the second: the loop is over
\* and SimulateRequest was issued for the second case alone
C25_Witness ==
  /\ AfterLoop
  /\ Len(testCases) = 2
  /\ testSetID \in DOMAIN SelectedTests
  /\ 2 \in SelectedTests[testSetID] /\ 1 \notin SelectedTests[testSetID]
  /\ Len(Driven) = 1
  /\ Driven[1][2] = 2

\* NormalizeTestCases, running for the next entry of the selection, may rewrite the
\* case c of the set: the entry names the set, the case is selected by the entry (an
\* entry without case names selects every case) and the report of the run holds a
\* result for it whose status is not PASSED
MayRewrite(set, c) ==
  /\ npc = "loop"
  /\ normIdx < Len(NormalizeSelectedTests)
  /\ NormalizeSelectedTests[normIdx + 1].TestSet = set
  /\ \/ NormalizeSelectedTests[normIdx + 1].Tests = {}
     \/ c \in NormalizeSelectedTests[normIdx + 1].Tests
  /\ reportStatus[c] # "absent"
  /\ reportStatus[c] # PASSED

\* C26: NormalizeTestCases changes the stored HTTPResp of a case only if the case is
\* selected, has a result in the report of the run and that result is not PASSED,
\* and then the stored HTTPResp becomes the response of that result; for every other
\* case the stored HTTPResp is unchanged and UpdateTestCase is not called.
C26_NormalizeRewritesOnlyFailedSelected ==
  [][\A sc \in DOMAIN HTTPResp :
       /\ HTTPResp'[sc] # HTTPResp[sc]
            => /\ MayRewrite(sc[1], sc[2])
               /\ HTTPResp'[sc] = Res(testRun, sc[1], sc[2])
       /\ (sc \in updateTestCaseCalls' /\ sc \notin updateTestCaseCalls)
            => MayRewrite(sc[1], sc[2])]_vars

\* Normalize ran over a set whose first case FAILED and whose second case PASSED in
\* the report: the first case holds the response of the run, the second is as
\* recorded and UpdateTestCase was called for the first alone
C26_Witness ==
  /\ reportStatus[1] = FAILED
  /\ reportStatus[2] = PASSED
  /\ HTTPResp[<<1, 1>>] # 0
  /\ HTTPResp[<<1, 2>>] = 0
  /\ <<1, 1>> \in updateTestCaseCalls
  /\ <<1, 2>> \notin updateTestCaseCalls
  /\ normErrs # <<>>

\* C27: the status of the runner, the status RunTestSet returns and the status of
\* the report it writes last are never RUNNING; the runner takes
\* testSetStatusByErrChan exactly when it receives from exitLoopChan, and whenever a
\* value is sent on exitLoopChan the watcher has already recorded a status other
\* than RUNNING.
C27_StatusNeverRunning ==
  /\ [](testSetStatus # RUNNING /\ retStatus # RUNNING)
  /\ [][/\ (rpc = "finalize" /\ rpc' = "wait" /\ retErr' = NilErr)
             => /\ reportDB'.Status = retStatus'
                /\ reportDB'.Status # RUNNING
        /\ (rpc \in {"loop", "finalize"} /\ Len(exitLoopChan') < Len(exitLoopChan))
             => /\ testSetStatus' = testSetStatusByErrChan
                /\ testSetStatusByErrChan # RUNNING
        /\ (rpc \in {"loop", "finalize"} /\ Len(exitLoopChan') >= Len(exitLoopChan))
             => testSetStatus' = testSetStatus
        /\ Len(exitLoopChan') > Len(exitLoopChan)
             => testSetStatusByErrChan \notin {RUNNING, PASSED, FAILED}]_vars

\* the watcher recorded USER_ABORT and signaled; the runner received the signal and
\* the terminal report and the returned status are USER_ABORT
C27_Witness ==
  /\ rpc = "returned"
  /\ watPc = "done"
  /\ exitLoopChan = <<>>
  /\ testSetStatusByErrChan = USER_ABORT
  /\ retStatus = USER_ABORT /\ retErr = NilErr
  /\ reportDB.Status = USER_ABORT

\* C29: in every RunTestSet invocation the watcher alone sends on exitLoopChan and
\* sends once (it sends in one step and never comes back to the send within the
\* invocation); whenever it is about to send, the channel has room, so the send does
\* not block; and every send happens while the runner has not yet passed the deferred
\* wait, after which alone the channel is closed.
C29_OneSendNeverBlocksNeverAfterClose ==
  /\ [](/\ watPc = "send" => Len(exitLoopChan) < ExitLoopChanCap
        /\ Len(exitLoopChan) <= 1)
  /\ [][/\ Len(exitLoopChan') > Len(exitLoopChan)
             => /\ exitLoopChan' = Append(exitLoopChan, TRUE)
                /\ watPc = "send" /\ watPc' = "cancel"
                /\ rpc \in {"warmup", "seed", "loop", "case", "postScript",
                            "finalize", "wait"}
                /\ rpc' = rpc
        /\ (watPc \in {"cancel", "done"} /\ rpc' # "idle")
             => watPc' \in {"cancel", "done"}
        /\ (watPc' = "send" /\ watPc # "send") => watPc = "select"
        /\ (watPc' = "select" /\ watPc # "select")
             => watPc = "none" /\ exitLoopChan = <<>>]_vars

\* RunTestSet returned and closed exitLoopChan with the one value the watcher sent
\* still in it
C29_Witness ==
  /\ rpc = "returned"
  /\ watPc = "done"
  /\ exitLoopChan = <<TRUE>>

\* C28: every RunTestSet invocation eventually returns: wherever the runner is, on
\* the paths that return early after spawning the tasks as on the others, it reaches
\* the end of its deferred function, which waits for the supervisor and the watcher;
\* neither task stays blocked on its send.
C28_RunTestSetReturns ==
  [](rpc \notin {"idle", "returned"} => <>(rpc = "returned"))

\* RunTestSet returned early, on the error of GetContainerIP, after it had spawned
\* the two tasks, and both have returned
C28_Witness ==
  /\ rpc = "returned"
  /\ retStatus = FAILED /\ retErr = OtherErr
  /\ "GetContainerIP" \in used
  /\ supPc = "done" /\ watPc = "done"

====
